---- MODULE Spec2Model ----
(***************************************************************************)
(* Model of temp4.py: a biomedical question is turned into entities, a     *)
(* refined query, two literature searches (Semantic Scholar, PubMed), a    *)
(* substring post-filter, one retry with the original query, and a         *)
(* summary.  Strings are sequences of one-character strings, so that       *)
(* lower(), `in`, join, startswith, replace and strip are computed.        *)
(***************************************************************************)
EXTENDS Naturals, Sequences, FiniteSets, TLC

\* ------------------------------------------------------------------ bounds
\* Longest result list a source returns in the adapter harness.
MaxPapers == 2
\* Longest PubMed id list in the adapter harness.
MaxIds == 2
\* Longest result list / id list a source returns inside a pipeline run.
MainMaxPapers == 1
MainMaxIds == 2
\* Longest paper list and term list handed to filter_papers in its harness.
MaxFilterLen == 2
MaxTerms == 2
\* Most lines of a MEDLINE text handed to parse_medline in its harness.
MaxLines == 3

\* ------------------------------------------------------------ string data
NO_ABSTRACT == <<"N","o"," ","a","b","s","t","r","a","c","t"," ","a","v","a","i","l","a","b","l","e">>
NO_TITLE == <<"N","o"," ","t","i","t","l","e"," ","a","v","a","i","l","a","b","l","e">>
AND_SEP == <<" ","A","N","D"," ">>
TI_TAG == <<"T","I"," "," ","-"," ">>
AB_TAG == <<"A","B"," "," ","-"," ">>
INDENT == <<" "," "," "," "," "," ">>
\* The question main() asks (shortened): "Cas in ab".
QUERY == <<"C","a","s"," ","i","n"," ","a","b">>
\* Python's None (a missing or null JSON field).
None == <<"<None>">>

\* --------------------------------------------------------- str operations
\* str.lower() on one character.
LowerChar(c) ==
  CASE c = "A" -> "a" [] c = "B" -> "b" [] c = "C" -> "c" [] c = "D" -> "d"
    [] c = "G" -> "g" [] c = "I" -> "i" [] c = "M" -> "m" [] c = "N" -> "n"
    [] c = "P" -> "p" [] c = "T" -> "t" [] c = "X" -> "x" [] c = "Y" -> "y"
    [] OTHER -> c

lower(s) == [i \in 1..Len(s) |-> LowerChar(s[i])]

\* Python's `x in s` on strings: x occurs in s as a contiguous run.
In(x, s) ==
  \E k \in 0..Len(s) : k + Len(x) <= Len(s) /\ SubSeq(s, k + 1, k + Len(x)) = x

startswith(s, prefix) ==
  Len(prefix) <= Len(s) /\ SubSeq(s, 1, Len(prefix)) = prefix

\* sep.join(parts)
RECURSIVE join(_, _)
join(parts, sep) ==
  IF parts = <<>> THEN <<>>
  ELSE IF Len(parts) = 1 THEN parts[1]
  ELSE parts[1] \o sep \o join(Tail(parts), sep)

\* s.replace(old, ""): every non-overlapping occurrence, left to right.
RECURSIVE remove_all(_, _)
remove_all(s, old) ==
  IF Len(s) < Len(old) \/ s = <<>> THEN s
  ELSE IF startswith(s, old) THEN remove_all(SubSeq(s, Len(old) + 1, Len(s)), old)
  ELSE <<Head(s)>> \o remove_all(Tail(s), old)

IsSpace(c) == c = " " \/ c = "\n"

\* s.strip()
RECURSIVE lstrip(_)
lstrip(s) == IF s # <<>> /\ IsSpace(Head(s)) THEN lstrip(Tail(s)) ELSE s

RECURSIVE rstrip(_)
rstrip(s) ==
  IF s # <<>> /\ IsSpace(s[Len(s)]) THEN rstrip(SubSeq(s, 1, Len(s) - 1)) ELSE s

strip(s) == rstrip(lstrip(s))

\* s.splitlines(): cut at each "\n"; a final "\n" opens no empty last line.
RECURSIVE split_from(_, _, _)
split_from(s, cur, acc) ==
  IF s = <<>> THEN (IF cur = <<>> THEN acc ELSE Append(acc, cur))
  ELSE IF Head(s) = "\n" THEN split_from(Tail(s), <<>>, Append(acc, cur))
  ELSE split_from(Tail(s), Append(cur, Head(s)), acc)

splitlines(s) == split_from(s, <<>>, <<>>)

\* All sequences over S of length at most n.
SeqsUpTo(S, n) == UNION {[1..k -> S] : k \in 0..n}

\* ---------------------------------------------------------------- entities
\* An entity {'text': t, 'label': l}.
Entity(t) == [text |-> t, label |-> "ENT"]
\* A JSON array item the LLM may send that has no 'text' key.
NoTextItem == [label |-> "ENT"]
HasText(ent) == "text" \in DOMAIN ent
\* A JSON array item the LLM may send that has no 'label' key.
NoLabelItem == [text |-> <<"C","a","s">>]
HasLabel(ent) == "label" \in DOMAIN ent

E_CAS == Entity(<<"C","a","s">>)
E_AB == Entity(<<"a","b">>)

\* ----------------------------------------------------------- filter_papers
PaperMatchesTitleOnly(paper, required_terms) ==
  \E i \in 1..Len(required_terms) : In(lower(required_terms[i]), lower(paper.title))

PaperMatchesAllTerms(paper, required_terms) ==
  \A i \in 1..Len(required_terms) :
    \/ In(lower(required_terms[i]), lower(paper.title))
    \/ In(lower(required_terms[i]), lower(paper.abstract))

\* The test of lines 94-97.
PaperMatches(paper, required_terms) ==
  LET title == lower(paper.title)
      abstract == lower(paper.abstract)
  IN \/ \E i \in 1..Len(required_terms) : In(lower(required_terms[i]), title)
     \/ \E i \in 1..Len(required_terms) : In(lower(required_terms[i]), abstract)

RECURSIVE filter_loop(_, _, _)
filter_loop(papers, required_terms, filtered) ==
  IF papers = <<>> THEN filtered
  ELSE filter_loop(Tail(papers), required_terms,
                   IF PaperMatches(Head(papers), required_terms)
                   THEN Append(filtered, Head(papers)) ELSE filtered)

filter_papers(papers, required_terms) == filter_loop(papers, required_terms, <<>>)

\* ------------------------------------------------------------ parse_medline
RECURSIVE parse_loop(_, _, _, _)
parse_loop(lines, current_field, title_lines, abstract_lines) ==
  IF lines = <<>> THEN [title_lines |-> title_lines, abstract_lines |-> abstract_lines]
  ELSE LET line == Head(lines)
           rest == Tail(lines)
       IN IF startswith(line, TI_TAG)
          THEN parse_loop(rest, "TI",
                          Append(title_lines, strip(remove_all(line, TI_TAG))),
                          abstract_lines)
          ELSE IF startswith(line, AB_TAG)
          THEN parse_loop(rest, "AB", title_lines,
                          Append(abstract_lines, strip(remove_all(line, AB_TAG))))
          ELSE IF startswith(line, INDENT) /\ current_field = "AB"
          THEN parse_loop(rest, current_field, title_lines,
                          Append(abstract_lines, strip(line)))
          ELSE IF startswith(line, INDENT) /\ current_field = "TI"
          THEN parse_loop(rest, current_field, Append(title_lines, strip(line)),
                          abstract_lines)
          ELSE parse_loop(rest, "None", title_lines, abstract_lines)

\* The two segment lists after the loop of lines 159-171.
medline_fields(medline_text) == parse_loop(splitlines(medline_text), "None", <<>>, <<>>)

parse_medline(medline_text) ==
  LET f == medline_fields(medline_text)
  IN [title |-> IF f.title_lines # <<>> THEN join(f.title_lines, <<" ">>) ELSE NO_TITLE,
      abstract |-> IF f.abstract_lines # <<>> THEN join(f.abstract_lines, <<" ">>)
                   ELSE NO_ABSTRACT]

\* ------------------------------------------------------ get_openai_entities
\* What one call of the chat completion can come to.  kind:
\*   "api_error"  the call or the reading of its answer raised (line 69);
\*   "not_json"   json.loads raised JSONDecodeError on the cleaned answer (line 65);
\*   "not_list"   the answer parsed to something that is no list (line 62);
\*   "list"       the answer parsed to the list `value` (line 60).
LLMOutcome(kind, value) == [kind |-> kind, value |-> value]

get_openai_entities_any_json(outcome) ==
  IF outcome.kind \in {"list", "not_list"} THEN outcome.value ELSE <<>>

get_openai_entities(outcome) ==
  IF outcome.kind = "list" THEN outcome.value ELSE <<>>

\* Every kind of answer, used where the query's entities are extracted and in
\* the adapter harness.
LLMOutcomes ==
  { LLMOutcome("api_error", <<>>), LLMOutcome("not_json", <<>>),
    LLMOutcome("not_list", <<E_CAS>>), LLMOutcome("list", <<>>),
    LLMOutcome("list", <<E_CAS>>), LLMOutcome("list", <<E_CAS, E_AB>>),
    LLMOutcome("list", <<NoTextItem>>), LLMOutcome("list", <<NoLabelItem>>) }

\* The answer drawn for abstracts inside a pipeline run: the call fails.
MainLLMOutcomes == { LLMOutcome("api_error", <<>>) }

\* What the spaCy model finds: always well-formed entities, possibly none.
NlpOutcomes == { <<>>, <<E_AB>> }

\* -------------------------------------------------------- source responses
T_CAS == <<"c","a","s"," ","9">>
T_X == <<"x">>
A_AB == <<"A","n"," ","A","B"," ","t","e","s","t">>
A_Y == <<"y">>
\* MEDLINE records: "TI  - cas / x / AB  - Ab / y / PG  - 1" and one with no AB field.
M_FULL == <<"T","I"," "," ","-"," ","c","a","s","\n"," "," "," "," "," "," ","x","\n","A","B"," "," ","-"," ","A","b","\n"," "," "," "," "," "," ","y","\n","P","G"," "," ","-"," ","1","\n">>
M_NOAB == <<"P","M","I","D","-"," ","7","\n","T","I"," "," ","-"," ","x"," ","y","\n">>

\* One item of Semantic Scholar's data array: {'title': ..., 'abstract': ...}.
SemanticItems ==
  { [title |-> T_CAS, abstract |-> A_Y], [title |-> T_X, abstract |-> None],
    [title |-> T_X, abstract |-> A_AB], [title |-> T_X, abstract |-> <<>>] }
MainSemanticItems ==
  { [title |-> T_CAS, abstract |-> A_Y], [title |-> T_X, abstract |-> None] }

\* A response of requests.get: it raised, it came with a status other than 200,
\* or it came with 200 and a body.
Response(kind, body) == [kind |-> kind, body |-> body]
SemanticResponsesOf(items, n) ==
  { Response("transport_error", <<>>), Response("status_error", <<>>) }
    \cup { Response("ok", d) : d \in SeqsUpTo(items, n) }

Injective(s) == \A i, j \in 1..Len(s) : s[i] = s[j] => i = j
\* ESearch answers with a list of distinct PubMed ids.
ESearchResponsesOf(n) ==
  { Response("transport_error", <<>>), Response("status_error", <<>>) }
    \cup { Response("ok", ids) : ids \in { s \in SeqsUpTo(1..n, n) : Injective(s) } }

MedlineTexts == { M_FULL, M_NOAB }
FetchResponsesOf(texts) ==
  { Response("transport_error", <<>>), Response("status_error", <<>>) }
    \cup { Response("ok", t) : t \in texts }

\* Every abstract text the extractors can be handed.
AbstractTexts ==
  { i.abstract : i \in SemanticItems } \cup { parse_medline(t).abstract : t \in MedlineTexts }

\* spaCy as the adapter harness sees it: any outcome on any text.
AnyNlp == [t \in AbstractTexts |-> NlpOutcomes]
\* spaCy inside a pipeline run: a fixed function of the text, which finds
\* nothing in the no-abstract sentence.
MainNlp == [t \in AbstractTexts |-> IF t = NO_ABSTRACT THEN { <<>> } ELSE { <<E_AB>> }]

\* ------------------------------------------------------------------- state
VARIABLES
  pc,               \* the control point
  attempt,          \* 1: refined query, 2: original query, 0: an adapter called alone
  entities,         \* get_query_entities: its local `entities`
  query_entities,   \* main's locals
  refined_query,
  semantic_papers,
  pubmed_papers,
  combined_papers,
  required_terms,
  filtered_papers,
  arg,              \* the running adapter's `query`
  resp,             \* its items still to visit: data['data'] or id_list
  papers,           \* its local `papers`
  ret,              \* the value it returns
  outcome,          \* what display_results showed
  combined_abstract,\* display_results: its local, the value of line 278
  llm_outcome,      \* history: the answer the last query-level LLM call got
  ext_log,          \* history: extractor calls made for the query, with outputs
  req_log,          \* history: the running adapter's requests, with results
  rec_log,          \* history: per record of `papers`, its source and extractor calls
  searched,         \* history: every adapter call of main(), with the query passed
  returned,         \* history: the list each of those calls returned
  filter_log,       \* history: every filter_papers call: input, terms, output
  summary_calls,    \* history: calls of the summary engine
  engine_log        \* history: each of those calls, its text and its answer

main_vars == <<query_entities, refined_query, semantic_papers, pubmed_papers,
               combined_papers, required_terms, filtered_papers>>
frame_vars == <<arg, resp, papers, ret, req_log, rec_log>>
query_vars == <<entities, llm_outcome, ext_log>>
vars == <<pc, attempt, entities, query_entities, refined_query, semantic_papers,
          pubmed_papers, combined_papers, required_terms, filtered_papers, arg,
          resp, papers, ret, outcome, combined_abstract, llm_outcome, ext_log,
          req_log, rec_log, searched, returned, filter_log, summary_calls,
          engine_log>>
hist_vars == <<searched, returned, filter_log, summary_calls, engine_log>>

NoOutcome == LLMOutcome("none", <<>>)

\* Nothing assigned yet, no call made yet.
Blank ==
  /\ entities = <<>>
  /\ query_entities = <<>>
  /\ refined_query = <<>>
  /\ semantic_papers = <<>>
  /\ pubmed_papers = <<>>
  /\ combined_papers = <<>>
  /\ required_terms = <<>>
  /\ filtered_papers = <<>>
  /\ resp = <<>>
  /\ papers = <<>>
  /\ ret = <<>>
  /\ outcome = "none"
  /\ combined_abstract = <<>>
  /\ llm_outcome = NoOutcome
  /\ ext_log = <<>>
  /\ req_log = <<>>
  /\ rec_log = <<>>
  /\ searched = <<>>
  /\ returned = <<>>
  /\ filter_log = <<>>
  /\ summary_calls = 0
  /\ engine_log = <<>>

\* The state when main() is entered.
Init ==
  /\ pc = "q_primary"
  /\ attempt = 1
  /\ arg = <<>>
  /\ Blank

\* ------------------------------------------------------ get_query_entities
\* Line 79: the one call of get_openai_entities(query).
QueryPrimary ==
  /\ pc = "q_primary"
  /\ \E o \in LLMOutcomes :
       /\ entities' = get_openai_entities(o)
       /\ llm_outcome' = o
       /\ ext_log' = Append(ext_log, [who |-> "openai", out |-> get_openai_entities(o)])
  /\ pc' = "q_check"
  /\ UNCHANGED <<attempt, main_vars, frame_vars, outcome, combined_abstract, hist_vars>>

needs_fallback_always(ents) == TRUE

\* Line 80: `if not entities`.
needs_fallback(ents) == ents = <<>>

\* Line 80; without the fallback the function returns (line 84).
QueryCheck ==
  /\ pc = "q_check"
  /\ IF needs_fallback(entities)
     THEN /\ pc' = "q_fallback"
          /\ UNCHANGED query_entities
     ELSE /\ pc' = "build"
          /\ query_entities' = entities
  /\ llm_outcome' = NoOutcome
  /\ UNCHANGED <<attempt, entities, refined_query, semantic_papers, pubmed_papers,
                 combined_papers, required_terms, filtered_papers, frame_vars,
                 outcome, combined_abstract, ext_log, hist_vars>>

\* Lines 81-84: spaCy on the query, and the return.
QueryFallback ==
  /\ pc = "q_fallback"
  /\ \E n \in NlpOutcomes :
       /\ entities' = n
       /\ query_entities' = n
       /\ ext_log' = Append(ext_log, [who |-> "spacy", out |-> n])
  /\ pc' = "build"
  /\ UNCHANGED <<attempt, refined_query, semantic_papers, pubmed_papers,
                 combined_papers, required_terms, filtered_papers, frame_vars,
                 outcome, combined_abstract, llm_outcome, hist_vars>>

\* ------------------------------------------------------------ refined query
texts_of(ents) == [i \in 1..Len(ents) |-> ents[i].text]

build_refined_first_only(ents, original) ==
  IF ents # <<>> THEN ents[1].text ELSE original

\* Lines 290-293, for entities that all have a 'text'.
build_refined(ents, original) ==
  IF ents # <<>> THEN join(texts_of(ents), AND_SEP) ELSE original

\* Lines 290-294.  ent['text'] raises on an item without that key, and nothing
\* in main() catches it.
BuildRefinedQuery ==
  /\ pc = "build"
  /\ IF \E i \in 1..Len(query_entities) : ~HasText(query_entities[i])
     THEN /\ pc' = "crashed"
          /\ UNCHANGED refined_query
     ELSE /\ pc' = "sem_call"
          /\ refined_query' = build_refined(query_entities, QUERY)
  /\ UNCHANGED <<attempt, query_vars, query_entities, semantic_papers, pubmed_papers,
                 combined_papers, required_terms, filtered_papers, frame_vars,
                 outcome, combined_abstract, hist_vars>>

\* ------------------------------------------------------- two-stage extraction
\* Lines 131-135 and 219-222: spaCy's entities `n`, and the LLM's answer `o`
\* only when spaCy found none.  Gives the entities kept and the calls made.
two_stage_merged(n, o) ==
  [entities |-> n \o get_openai_entities(o),
   calls |-> <<[who |-> "spacy", out |-> n],
               [who |-> "openai", out |-> get_openai_entities(o)]>>]

two_stage(n, o) ==
  IF n # <<>>
  THEN [entities |-> n, calls |-> <<[who |-> "spacy", out |-> n]>>]
  ELSE [entities |-> get_openai_entities(o),
        calls |-> <<[who |-> "spacy", out |-> n],
                    [who |-> "openai", out |-> get_openai_entities(o)]>>]

\* The LLM answers that can matter after spaCy returned n.
AnswersAfter(n, llm) == IF n # <<>> THEN {NoOutcome} ELSE llm

Paper(title, abstract, ents) == [title |-> title, abstract |-> abstract, entities |-> ents]

\* ------------------------------------------------------ fetch_paper_abstract
\* Python's truth value of paper.get('abstract', None).
HasAbstract(item) == item.abstract # None /\ item.abstract # <<>>

attempt_query_always_refined(n, refined, original) == refined

\* The query main() passes: refined_query at lines 297 and 300, query at 312 and 313.
attempt_query(n, refined, original) == IF n = 1 THEN refined ELSE original

\* Lines 297 and 312: main() calls the adapter.
MainCallSemantic ==
  /\ pc = "sem_call"
  /\ arg' = attempt_query(attempt, refined_query, QUERY)
  /\ searched' = Append(searched, [adapter |-> "semantic", query |-> arg'])
  /\ pc' = "sem_req"
  /\ UNCHANGED <<attempt, query_vars, main_vars, resp, papers, ret, req_log, rec_log,
                 outcome, combined_abstract, returned, filter_log, summary_calls, engine_log>>

request_raised_propagates(adapter) == [pc |-> "crashed", ret |-> <<>>]

request_raised_retries(adapter) ==
  [pc |-> IF adapter = "semantic" THEN "sem_req" ELSE "pub_req", ret |-> <<>>]

\* Lines 145-147 and 229-231: a RequestException anywhere in the adapter's try
\* block is caught, and the adapter returns [].
request_raised(adapter) ==
  [pc |-> IF adapter = "semantic" THEN "sem_ret" ELSE "pub_ret", ret |-> <<>>]

\* Lines 116-126 and 145-147: the search request.
SemanticRequest(responses) ==
  /\ pc = "sem_req"
  /\ \E r \in responses :
       /\ req_log' = Append(req_log, [req |-> "search", id |-> 0, result |-> r.kind,
                                       ids |-> <<>>])
       /\ IF r.kind = "transport_error"
          THEN /\ pc' = request_raised("semantic").pc
               /\ ret' = request_raised("semantic").ret
               /\ UNCHANGED resp
          ELSE IF r.kind = "ok" /\ r.body # <<>>
          THEN /\ resp' = r.body
               /\ pc' = "sem_loop"
               /\ UNCHANGED ret
          ELSE /\ ret' = <<>>
               /\ pc' = "sem_ret"
               /\ UNCHANGED resp
  /\ papers' = <<>>
  /\ UNCHANGED <<attempt, query_vars, main_vars, arg, rec_log, outcome, combined_abstract, hist_vars>>

\* Lines 127-144: one turn of the loop over data['data'], and the return after
\* the last one.
SemanticPaper(nlp, llm) ==
  /\ pc = "sem_loop"
  /\ resp # <<>>
  /\ LET item == Head(resp)
     IN IF HasAbstract(item)
        THEN \E n \in nlp[item.abstract] : \E o \in AnswersAfter(n, llm) :
               /\ papers' = Append(papers, Paper(item.title, item.abstract,
                                                 two_stage(n, o).entities))
               /\ rec_log' = Append(rec_log, [src |-> Len(rec_log) + 1,
                                              has_abstract |-> TRUE,
                                              calls |-> two_stage(n, o).calls])
        ELSE /\ papers' = Append(papers, Paper(item.title, NO_ABSTRACT, <<>>))
             /\ rec_log' = Append(rec_log, [src |-> Len(rec_log) + 1,
                                            has_abstract |-> FALSE, calls |-> <<>>])
  /\ resp' = Tail(resp)
  /\ IF Tail(resp) = <<>>
     THEN pc' = "sem_ret" /\ ret' = papers'
     ELSE pc' = "sem_loop" /\ UNCHANGED ret
  /\ UNCHANGED <<attempt, query_vars, main_vars, arg, req_log, outcome, combined_abstract, hist_vars>>

\* Lines 297 and 312: the adapter's value becomes semantic_papers; its frame is gone.
MainReturnSemantic ==
  /\ pc = "sem_ret"
  /\ attempt \in {1, 2}
  /\ semantic_papers' = ret
  /\ returned' = Append(returned, ret)
  /\ pc' = "pub_call"
  /\ arg' = <<>> /\ resp' = <<>> /\ papers' = <<>> /\ ret' = <<>>
  /\ req_log' = <<>> /\ rec_log' = <<>>
  /\ UNCHANGED <<attempt, query_vars, query_entities, refined_query, pubmed_papers,
                 combined_papers, required_terms, filtered_papers, outcome, combined_abstract, searched,
                 filter_log, summary_calls, engine_log>>

\* ----------------------------------------------------- fetch_pubmed_abstract
\* Lines 300 and 313.
MainCallPubmed ==
  /\ pc = "pub_call"
  /\ arg' = attempt_query(attempt, refined_query, QUERY)
  /\ searched' = Append(searched, [adapter |-> "pubmed", query |-> arg'])
  /\ pc' = "pub_req"
  /\ UNCHANGED <<attempt, query_vars, main_vars, resp, papers, ret, req_log, rec_log,
                 outcome, combined_abstract, returned, filter_log, summary_calls, engine_log>>

\* Lines 192-203 and 229-231: the ESearch request.
PubmedESearch(responses) ==
  /\ pc = "pub_req"
  /\ \E r \in responses :
       /\ req_log' = Append(req_log, [req |-> "esearch", id |-> 0, result |-> r.kind,
                                       ids |-> r.body])
       /\ IF r.kind = "transport_error"
          THEN /\ pc' = request_raised("pubmed").pc
               /\ ret' = request_raised("pubmed").ret
               /\ UNCHANGED resp
          ELSE IF r.kind = "ok" /\ r.body # <<>>
          THEN /\ resp' = r.body
               /\ pc' = "pub_loop"
               /\ UNCHANGED ret
          ELSE /\ ret' = <<>>
               /\ pc' = "pub_ret"
               /\ UNCHANGED resp
  /\ papers' = <<>>
  /\ UNCHANGED <<attempt, query_vars, main_vars, arg, rec_log, outcome, combined_abstract, hist_vars>>

\* Lines 204-231: one turn of the loop over id_list.  A status other than 200
\* goes on to the next id (line 216); a request that raises leaves the loop for
\* the handler of line 229, which returns [].
PubmedFetch(responses, nlp, llm) ==
  /\ pc = "pub_loop"
  /\ resp # <<>>
  /\ \E r \in responses :
       LET pmid == Head(resp)
           parsed == parse_medline(r.body)
           last == Tail(resp) = <<>>
       IN /\ req_log' = Append(req_log, [req |-> "fetch", id |-> pmid, result |-> r.kind,
                                          ids |-> <<>>])
          /\ IF r.kind = "transport_error"
             THEN /\ pc' = request_raised("pubmed").pc
                  /\ ret' = request_raised("pubmed").ret
                  /\ UNCHANGED <<resp, papers, rec_log>>
             ELSE /\ resp' = Tail(resp)
                  /\ IF r.kind = "status_error"
                     THEN UNCHANGED <<papers, rec_log>>
                     ELSE \E n \in nlp[parsed.abstract] : \E o \in AnswersAfter(n, llm) :
                            /\ papers' = Append(papers,
                                                Paper(parsed.title, parsed.abstract,
                                                      two_stage(n, o).entities))
                            /\ rec_log' = Append(rec_log,
                                 [src |-> pmid,
                                  has_abstract |-> medline_fields(r.body).abstract_lines # <<>>,
                                  calls |-> two_stage(n, o).calls])
                  /\ IF last
                     THEN pc' = "pub_ret" /\ ret' = papers'
                     ELSE pc' = "pub_loop" /\ UNCHANGED ret
  /\ UNCHANGED <<attempt, query_vars, main_vars, arg, outcome, combined_abstract, hist_vars>>

\* Lines 300 and 313: the adapter's value becomes pubmed_papers.
MainReturnPubmed ==
  /\ pc = "pub_ret"
  /\ attempt \in {1, 2}
  /\ pubmed_papers' = ret
  /\ returned' = Append(returned, ret)
  /\ pc' = "filter"
  /\ arg' = <<>> /\ resp' = <<>> /\ papers' = <<>> /\ ret' = <<>>
  /\ req_log' = <<>> /\ rec_log' = <<>>
  /\ UNCHANGED <<attempt, query_vars, query_entities, refined_query, semantic_papers,
                 combined_papers, required_terms, filtered_papers, outcome, combined_abstract, searched,
                 filter_log, summary_calls, engine_log>>

\* ------------------------------------------------------------------- main
combine_pubmed_first(semantic, pubmed) == pubmed \o semantic

\* Lines 303 and 314.
combine(semantic, pubmed) == semantic \o pubmed

retry_unless_two(filtered) == Len(filtered) < 2

\* Line 310: `if not filtered_papers`.
retry_needed(filtered) == filtered = <<>>

\* Lines 303-311: combine, filter, and choose between the retry and the display.
FirstAttemptFilter ==
  /\ pc = "filter"
  /\ attempt = 1
  /\ combined_papers' = combine(semantic_papers, pubmed_papers)
  /\ required_terms' = texts_of(query_entities)
  /\ filtered_papers' = filter_papers(combined_papers', required_terms')
  /\ filter_log' = Append(filter_log, [input |-> combined_papers',
                                        terms |-> required_terms',
                                        output |-> filtered_papers'])
  /\ IF retry_needed(filtered_papers')
     THEN pc' = "sem_call" /\ attempt' = 2
     ELSE pc' = "display" /\ UNCHANGED attempt
  /\ UNCHANGED <<query_vars, query_entities, refined_query, semantic_papers,
                 pubmed_papers, frame_vars, outcome, combined_abstract, searched, returned, summary_calls, engine_log>>

second_terms_from_query(terms) == <<QUERY>>

\* Line 315 passes the required_terms of line 306 again.
second_terms(terms) == terms

\* Lines 314-315: the second attempt's combine and filter.
SecondAttemptFilter ==
  /\ pc = "filter"
  /\ attempt = 2
  /\ combined_papers' = combine(semantic_papers, pubmed_papers)
  /\ filtered_papers' = filter_papers(combined_papers', second_terms(required_terms))
  /\ filter_log' = Append(filter_log, [input |-> combined_papers',
                                        terms |-> second_terms(required_terms),
                                        output |-> filtered_papers'])
  /\ pc' = "display"
  /\ UNCHANGED <<attempt, query_vars, query_entities, refined_query, semantic_papers,
                 pubmed_papers, required_terms, frame_vars, outcome, combined_abstract, searched, returned,
                 summary_calls, engine_log>>

\* ------------------------------------- display_results, generate_combined_abstract
\* "Unable to generate summary."
UNABLE_SUMMARY == <<"U","n","a","b","l","e"," ","t","o"," ","g","e","n","e","r","a","t","e"," ","s","u","m","m","a","r","y",".">>
S_TEXT == <<"s","u","m">>

\* What the one chat completion of lines 244-249 can come to.  kind:
\*   "ok"          it answered and choices[0].message['content'] is `text`;
\*   "api_error"   openai.ChatCompletion.create raised (line 244);
\*   "no_choices"  it answered, and reading choices[0].message['content'] raised
\*                 (line 249).
EngineResponse(kind, text) == [kind |-> kind, text |-> text]
EngineResponses ==
  { EngineResponse("ok", S_TEXT), EngineResponse("ok", <<>>),
    EngineResponse("api_error", <<>>), EngineResponse("no_choices", <<>>) }

\* Line 239: the abstracts joined by one space.
combined_text(records) == join([i \in 1..Len(records) |-> records[i].abstract], <<" ">>)

generate_combined_abstract_unchecked(response) == response.text

\* Lines 243-253: the answer's text, or the fixed string when anything in the
\* try block raised.
generate_combined_abstract(response) ==
  IF response.kind = "ok" THEN response.text ELSE UNABLE_SUMMARY

\* Lines 260-275 (line 318 of main).  Line 263 reads ent['text'] and ent['label']
\* of every query entity; an item without one of them raises, and nothing
\* catches it.
DisplayResults ==
  /\ pc = "display"
  /\ IF \E i \in 1..Len(query_entities) :
          ~HasText(query_entities[i]) \/ ~HasLabel(query_entities[i])
     THEN /\ pc' = "crashed"
          /\ UNCHANGED outcome
     ELSE IF filtered_papers = <<>>
     THEN /\ outcome' = "No data available."
          /\ pc' = "done"
     ELSE /\ pc' = "summarize"
          /\ UNCHANGED outcome
  /\ UNCHANGED <<attempt, query_vars, main_vars, frame_vars, combined_abstract,
                 hist_vars>>

\* Lines 278-280: generate_combined_abstract(papers) and the print of its value.
Summarize ==
  /\ pc = "summarize"
  /\ \E r \in EngineResponses :
       /\ engine_log' = Append(engine_log, [text |-> combined_text(filtered_papers),
                                             kind |-> r.kind, answer |-> r.text])
       /\ combined_abstract' = generate_combined_abstract(r)
  /\ summary_calls' = summary_calls + 1
  /\ outcome' = "summary"
  /\ pc' = "done"
  /\ UNCHANGED <<attempt, query_vars, main_vars, frame_vars, searched, returned,
                 filter_log>>

\* --------------------------------------------------------------- pipeline
Next ==
  \/ QueryPrimary
  \/ QueryCheck
  \/ QueryFallback
  \/ BuildRefinedQuery
  \/ MainCallSemantic
  \/ SemanticRequest(SemanticResponsesOf(MainSemanticItems, MainMaxPapers))
  \/ SemanticPaper(MainNlp, MainLLMOutcomes)
  \/ MainReturnSemantic
  \/ MainCallPubmed
  \/ PubmedESearch(ESearchResponsesOf(MainMaxIds))
  \/ PubmedFetch(FetchResponsesOf(MedlineTexts), MainNlp, MainLLMOutcomes)
  \/ MainReturnPubmed
  \/ FirstAttemptFilter
  \/ SecondAttemptFilter
  \/ DisplayResults
  \/ Summarize

\* One run of main().
Spec == Init /\ [][Next]_vars

\* ---------------------------------------------------------- adapter harness
\* One adapter called on its own, with every answer its collaborators can give.
AdapterQueries == { QUERY, build_refined(<<E_CAS, E_AB>>, QUERY) }

InitAdapter ==
  /\ pc \in {"sem_req", "pub_req"}
  /\ attempt = 0
  /\ arg \in AdapterQueries
  /\ Blank

\* The adapter's value reaches the caller of the harness.
HarnessReturn ==
  /\ pc \in {"sem_ret", "pub_ret"}
  /\ attempt = 0
  /\ pc' = "returned"
  /\ UNCHANGED <<attempt, query_vars, main_vars, frame_vars, outcome, combined_abstract, hist_vars>>

NextAdapter ==
  \/ SemanticRequest(SemanticResponsesOf(SemanticItems, MaxPapers))
  \/ SemanticPaper(AnyNlp, LLMOutcomes)
  \/ PubmedESearch(ESearchResponsesOf(MaxIds))
  \/ PubmedFetch(FetchResponsesOf(MedlineTexts), AnyNlp, LLMOutcomes)
  \/ HarnessReturn

SpecAdapter == InitAdapter /\ [][NextAdapter]_vars

\* ----------------------------------------------------- filter_papers harness
FilterTitles == { T_CAS, T_X }
FilterAbstracts == { A_AB, A_Y, NO_ABSTRACT }
FilterPapers == { Paper(t, a, <<>>) : t \in FilterTitles, a \in FilterAbstracts }
FilterTerms == { <<"C","a","s">>, <<"a","b">>, <<"Y">>, <<>> }

InitFilter ==
  /\ pc = "filter_call"
  /\ attempt = 0
  /\ arg = <<>>
  /\ entities = <<>>
  /\ query_entities = <<>>
  /\ refined_query = <<>>
  /\ semantic_papers = <<>>
  /\ pubmed_papers = <<>>
  /\ combined_papers \in SeqsUpTo(FilterPapers, MaxFilterLen)
  /\ required_terms \in SeqsUpTo(FilterTerms, MaxTerms)
  /\ filtered_papers = <<>>
  /\ resp = <<>>
  /\ papers = <<>>
  /\ ret = <<>>
  /\ outcome = "none"
  /\ combined_abstract = <<>>
  /\ llm_outcome = NoOutcome
  /\ ext_log = <<>>
  /\ req_log = <<>>
  /\ rec_log = <<>>
  /\ searched = <<>>
  /\ returned = <<>>
  /\ filter_log = <<>>
  /\ summary_calls = 0
  /\ engine_log = <<>>

\* filter_papers(combined_papers, required_terms), lines 87-99.
FilterCall ==
  /\ pc = "filter_call"
  /\ filtered_papers' = filter_papers(combined_papers, required_terms)
  /\ pc' = "returned"
  /\ UNCHANGED <<attempt, query_vars, query_entities, refined_query, semantic_papers,
                 pubmed_papers, combined_papers, required_terms, frame_vars, outcome, combined_abstract,
                 hist_vars>>

NextFilter == FilterCall

SpecFilter == InitFilter /\ [][NextFilter]_vars

\* ----------------------------------------------------- parse_medline harness
\* Lines of a MEDLINE text: "TI  - cas", "AB  - Ab " (a space at the end),
\* "      x", "PG  - 1", and a title line in which the tag comes twice,
\* "TI  - a TI  - b".
L_TI == TI_TAG \o <<"c","a","s">>
L_AB == AB_TAG \o <<"A","b"," ">>
L_CONT == INDENT \o <<"x">>
L_OTHER == <<"P","G"," "," ","-"," ","1">>
L_TI_TWICE == TI_TAG \o <<"a"," ">> \o TI_TAG \o <<"b">>
MedlineLines == { L_TI, L_AB, L_CONT, L_OTHER, L_TI_TWICE }

\* parse_medline is entered with the text whose lines are `resp`.
InitParse ==
  /\ pc = "parse_call"
  /\ attempt = 0
  /\ resp \in SeqsUpTo(MedlineLines, MaxLines)
  /\ arg = join(resp, <<"\n">>)
  /\ entities = <<>>
  /\ query_entities = <<>>
  /\ refined_query = <<>>
  /\ semantic_papers = <<>>
  /\ pubmed_papers = <<>>
  /\ combined_papers = <<>>
  /\ required_terms = <<>>
  /\ filtered_papers = <<>>
  /\ papers = <<>>
  /\ ret = <<>>
  /\ outcome = "none"
  /\ combined_abstract = <<>>
  /\ llm_outcome = NoOutcome
  /\ ext_log = <<>>
  /\ req_log = <<>>
  /\ rec_log = <<>>
  /\ searched = <<>>
  /\ returned = <<>>
  /\ filter_log = <<>>
  /\ summary_calls = 0
  /\ engine_log = <<>>

\* parse_medline(arg), lines 150-174; `ret` holds the one dictionary returned.
ParseCall ==
  /\ pc = "parse_call"
  /\ ret' = <<parse_medline(arg)>>
  /\ pc' = "returned"
  /\ UNCHANGED <<attempt, query_vars, main_vars, arg, resp, papers, req_log, rec_log,
                 outcome, combined_abstract, hist_vars>>

NextParse == ParseCall

SpecParse == InitParse /\ [][NextParse]_vars


\* ================================================================== claims
Last(seq) == seq[Len(seq)]

\* a is b with some elements left out, the rest in b's order.
RECURSIVE IsSubseq(_, _)
IsSubseq(a, b) ==
  IF a = <<>> THEN TRUE
  ELSE IF b = <<>> THEN FALSE
  ELSE IF Head(a) = Head(b) /\ IsSubseq(Tail(a), Tail(b)) THEN TRUE
  ELSE IsSubseq(a, Tail(b))

CallsOf(adapter) == Cardinality({ i \in 1..Len(searched) : searched[i].adapter = adapter })

SearchOf(adapter, q) == [adapter |-> adapter, query |-> q]

\* get_query_entities has returned and line 291 has not raised.
PastBuild == pc \notin {"q_primary", "q_check", "q_fallback", "build", "crashed"}

\* C1: the second retrieval attempt (both adapters searched again, with the
\* original query) is made if and only if the first attempt's filter returned an
\* empty list; a non-empty first result is the final result and no further
\* search is issued.
C1_RetryIffFirstFilterEmpty ==
  /\ (Len(searched) > 2 \/ attempt = 2 \/ Len(filter_log) > 1)
       => (Len(filter_log) >= 1 /\ filter_log[1].output = <<>>)
  /\ pc \in {"display", "done"} =>
       IF filter_log[1].output = <<>>
       THEN /\ Len(filter_log) = 2
            /\ searched = <<searched[1], searched[2],
                            SearchOf("semantic", QUERY), SearchOf("pubmed", QUERY)>>
       ELSE /\ Len(filter_log) = 1
            /\ Len(searched) = 2
            /\ filtered_papers = filter_log[1].output

\* C1's case: records were found by the first attempt, all were filtered out,
\* and the run went through the second attempt.
C1_Witness ==
  /\ pc = "done"
  /\ Len(filter_log) = 2
  /\ filter_log[1].input # <<>>
  /\ Len(searched) = 4

\* C2: the second attempt searches both adapters with the unmodified original
\* query and filters with the required_terms of the first attempt (the texts of
\* the entities extracted once from the query); its result is final even when
\* empty; no adapter is searched more than twice and filter_papers is not called
\* more than twice.
C2_SecondAttemptIsLast ==
  /\ Len(filter_log) <= 2
  /\ CallsOf("semantic") <= 2
  /\ CallsOf("pubmed") <= 2
  /\ Len(searched) >= 3 => searched[3] = SearchOf("semantic", QUERY)
  /\ Len(searched) >= 4 => searched[4] = SearchOf("pubmed", QUERY)
  /\ Len(filter_log) = 2 =>
       /\ filter_log[2].terms = filter_log[1].terms
       /\ filter_log[2].terms = [i \in 1..Len(Last(ext_log).out) |-> Last(ext_log).out[i].text]
       /\ filter_log[2].input = returned[3] \o returned[4]
  /\ (pc \in {"display", "done"} /\ Len(filter_log) = 2) =>
       filtered_papers = filter_log[2].output

\* C2's case: the second attempt ran with a refined query that differs from the
\* original one, found records, kept none, and the run ended there.
C2_Witness ==
  /\ pc = "done"
  /\ Len(filter_log) = 2
  /\ refined_query # QUERY
  /\ required_terms # <<>>
  /\ filter_log[2].input # <<>>
  /\ filtered_papers = <<>>

\* Two characters that differ at most in case.
CasePairs == { <<"A","a">>, <<"B","b">>, <<"C","c">>, <<"D","d">>, <<"G","g">>,
               <<"I","i">>, <<"M","m">>, <<"N","n">>, <<"P","p">>, <<"T","t">>,
               <<"X","x">>, <<"Y","y">> }
SameLetter(c, d) == c = d \/ <<c, d>> \in CasePairs \/ <<d, c>> \in CasePairs

\* term occurs in text as a substring, case ignored.
OccursIgnoringCase(term, text) ==
  \E k \in 0..Len(text) :
    /\ k + Len(term) <= Len(text)
    /\ \A i \in 1..Len(term) : SameLetter(term[i], text[k + i])

KeptByClaim(paper, terms) ==
  \E i \in 1..Len(terms) :
    OccursIgnoringCase(terms[i], paper.title) \/ OccursIgnoringCase(terms[i], paper.abstract)

\* The records of `records` that KeptByClaim keeps, in order.
RECURSIVE KeptOf(_, _)
KeptOf(records, terms) ==
  IF records = <<>> THEN <<>>
  ELSE (IF KeptByClaim(Head(records), terms) THEN <<Head(records)>> ELSE <<>>)
         \o KeptOf(Tail(records), terms)

\* C3: filter_papers keeps a record if and only if at least one required term
\* occurs, case ignored, as a substring of its title or of its abstract; with no
\* required term it keeps nothing.
C3_FilterKeepsMatches ==
  pc = "returned" =>
    /\ filtered_papers = KeptOf(combined_papers, required_terms)
    /\ required_terms = <<>> => filtered_papers = <<>>

\* C3's case: of two records one is kept, and only because a term in another
\* case than the text occurs in its abstract.
C3_Witness ==
  /\ pc = "returned"
  /\ Len(combined_papers) = 2
  /\ Len(filtered_papers) = 1
  /\ required_terms = << <<"a","b">> >>
  /\ filtered_papers[1].abstract = A_AB
  /\ filtered_papers[1].title = T_X

\* C4: in each attempt filter_papers is handed the records the Semantic Scholar
\* adapter returned followed by those the PubMed adapter returned, each in the
\* order returned, and its output is a subsequence of that input, never longer.
C4_FilterInputOrder ==
  \A k \in 1..Len(filter_log) :
    /\ Len(returned) >= 2 * k
    /\ searched[2 * k - 1].adapter = "semantic"
    /\ searched[2 * k].adapter = "pubmed"
    /\ filter_log[k].input = returned[2 * k - 1] \o returned[2 * k]
    /\ IsSubseq(filter_log[k].output, filter_log[k].input)
    /\ Len(filter_log[k].output) <= Len(filter_log[k].input)

\* C4's case: one Semantic Scholar record and two PubMed records go in, and the
\* Semantic Scholar record and one PubMed record come out.
C4_Witness ==
  \E k \in 1..Len(filter_log) :
    /\ Len(returned[2 * k - 1]) = 1
    /\ Len(returned[2 * k]) = 2
    /\ Len(filter_log[k].output) = 2
    /\ filter_log[k].output[1] = returned[2 * k - 1][1]
    /\ returned[2 * k][1] # returned[2 * k][2]

\* The texts joined by " AND ", built from the right.
RECURSIVE JoinedWithAnd(_)
JoinedWithAnd(parts) ==
  IF Len(parts) = 1 THEN parts[1]
  ELSE JoinedWithAnd(SubSeq(parts, 1, Len(parts) - 1)) \o AND_SEP \o Last(parts)

\* "Cas AND ab"
CAS_AND_AB == <<"C","a","s"," ","A","N","D"," ","a","b">>

\* C5: the refined query is the extracted entities' texts joined by " AND " in
\* the extractor's order when there is at least one entity, and the original
\* query text when there is none.
C5_RefinedQuery ==
  PastBuild =>
    /\ query_entities = Last(ext_log).out
    /\ refined_query =
         IF query_entities = <<>> THEN QUERY
         ELSE JoinedWithAnd([i \in 1..Len(query_entities) |-> query_entities[i].text])
    /\ searched # <<>> => searched[1].query = refined_query

\* C5's case: two entities were extracted and joined.
C5_Witness ==
  /\ pc = "done"
  /\ Len(query_entities) = 2
  /\ refined_query = CAS_AND_AB

\* C6: on the query the LLM extractor is called first and once; spaCy is called
\* once if the LLM path gave an empty list and not at all otherwise; what
\* get_query_entities returns is the output of one of the two, never both.
C6_FallbackOnlyOnEmpty ==
  /\ Len(ext_log) <= 2
  /\ pc # "q_primary" => (ext_log # <<>> /\ ext_log[1].who = "openai")
  /\ Len(ext_log) = 2 => (ext_log[1].out = <<>> /\ ext_log[2].who = "spacy")
  /\ pc \notin {"q_primary", "q_check", "q_fallback"} =>
       IF ext_log[1].out # <<>>
       THEN Len(ext_log) = 1 /\ query_entities = ext_log[1].out
       ELSE Len(ext_log) = 2 /\ query_entities = ext_log[2].out

\* C6's case: the LLM path gave nothing and spaCy's entities were returned.
C6_Witness ==
  /\ pc = "build"
  /\ Len(ext_log) = 2
  /\ query_entities = <<E_AB>>

\* C7: whatever the LLM call comes to (the call fails, the answer is no JSON, it
\* is JSON but no array, an empty array, a non-empty array) get_openai_entities
\* gives a list, empty in the first four cases, and get_query_entities hands its
\* caller a list: no failure leaves it.
C7_ExtractNeverFails ==
  /\ pc = "q_check" =>
       /\ DOMAIN entities = 1..Len(entities)
       /\ llm_outcome.kind \in {"api_error", "not_json", "not_list"} => entities = <<>>
       /\ llm_outcome.kind = "list" => entities = llm_outcome.value
  /\ pc \in {"q_primary", "q_check", "q_fallback"} => ENABLED Next
  /\ pc \notin {"q_primary", "q_check", "q_fallback"} =>
       (DOMAIN query_entities = 1..Len(query_entities) /\ query_entities = Last(ext_log).out)

\* C7's case: the LLM answered with JSON that is no array.
C7_Witness ==
  /\ pc = "q_check"
  /\ llm_outcome.kind = "not_list"
  /\ llm_outcome.value # <<>>
  /\ entities = <<>>

\* The ids ESearch returned to the running PubMed adapter.
IdList == req_log[1].ids
\* Its detail requests so far.
Fetches == SubSeq(req_log, 2, Len(req_log))
RECURSIVE OkIds(_)
OkIds(fetches) ==
  IF fetches = <<>> THEN <<>>
  ELSE (IF Head(fetches).result = "ok" THEN <<Head(fetches).id>> ELSE <<>>)
         \o OkIds(Tail(fetches))

\* C8: in the PubMed adapter's detail-fetch phase a failed fetch (a status other
\* than 200, or a request that raises) only skips its identifier: every later
\* identifier is still fetched, and the adapter returns, in identifier order, a
\* record for every identifier whose fetch succeeded.
C8_FetchFailureOnlySkips ==
  (pc = "pub_ret" /\ req_log[1].result = "ok" /\ IdList # <<>>) =>
    /\ [i \in 1..Len(Fetches) |-> Fetches[i].id] = IdList
    /\ Len(ret) = Len(OkIds(Fetches))
    /\ ret = papers
    /\ [i \in 1..Len(rec_log) |-> rec_log[i].src] = OkIds(Fetches)

IsPaper(p) == DOMAIN p = {"title", "abstract", "entities"}

\* C9: neither adapter lets a failure out: whatever its requests come to (a
\* request raises, a status other than 200, no results, results) and whatever the
\* extractors answer, it returns a list of records; a search request (Semantic
\* Scholar search, PubMed ESearch) that raised or had a status other than 200
\* gives the empty list.
C9_AdaptersNeverThrow ==
  /\ pc # "crashed"
  /\ pc # "returned" => ENABLED NextAdapter
  /\ pc \in {"sem_ret", "pub_ret", "returned"} =>
       /\ \A i \in 1..Len(ret) : IsPaper(ret[i])
       /\ req_log[1].result # "ok" => ret = <<>>

\* C9's case: an adapter's search request raised and the adapter returned [].
C9_Witness ==
  /\ pc = "returned"
  /\ req_log[1].result = "transport_error"
  /\ ret = <<>>

\* C10: a record whose source supplied no abstract has the no-abstract sentence
\* as its abstract, no entities, and no extractor was called for it.
C10_NoExtractionWithoutAbstract ==
  \A i \in 1..Len(papers) :
    ~rec_log[i].has_abstract =>
      /\ papers[i].abstract = NO_ABSTRACT
      /\ papers[i].entities = <<>>
      /\ rec_log[i].calls = <<>>

\* C11: each call of generate_combined_abstract makes exactly one call of the
\* summary engine and none again after a failure; it returns the engine's text
\* when that call succeeded and the fixed string "Unable to generate summary."
\* when it failed in any way, and no failure leaves it.
C11_SummarizeOnce ==
  /\ summary_calls = Len(engine_log)
  /\ pc = "summarize" => (engine_log = <<>> /\ ENABLED Summarize)
  /\ pc = "crashed" => engine_log = <<>>
  /\ engine_log # <<>> =>
       /\ Len(engine_log) = 1
       /\ pc = "done"
       /\ engine_log[1].kind = "ok" => combined_abstract = engine_log[1].answer
       /\ engine_log[1].kind # "ok" => combined_abstract = UNABLE_SUMMARY

\* C11's case: the engine answered without any choice and the fixed string came
\* back.
C11_Witness ==
  /\ pc = "done"
  /\ Len(engine_log) = 1
  /\ engine_log[1].kind = "no_choices"
  /\ combined_abstract = UNABLE_SUMMARY

\* What follows the six characters of the tag in a tag line, trimmed.
Remainder(line) == strip(SubSeq(line, Len(TI_TAG) + 1, Len(line)))

\* The segments `field` collects from `lines` when `open` is the open field:
\* a tag line opens its field and gives its remainder, a line of six spaces
\* gives its trimmed content to the open field, any other line closes the field.
RECURSIVE Segments(_, _, _)
Segments(lines, open, field) ==
  IF lines = <<>> THEN <<>>
  ELSE LET line == Head(lines)
       IN IF startswith(line, TI_TAG)
          THEN (IF field = "title" THEN <<Remainder(line)>> ELSE <<>>)
                 \o Segments(Tail(lines), "title", field)
          ELSE IF startswith(line, AB_TAG)
          THEN (IF field = "abstract" THEN <<Remainder(line)>> ELSE <<>>)
                 \o Segments(Tail(lines), "abstract", field)
          ELSE IF startswith(line, INDENT) /\ open # "none"
          THEN (IF field = open THEN <<strip(line)>> ELSE <<>>)
                 \o Segments(Tail(lines), open, field)
          ELSE Segments(Tail(lines), "none", field)

\* The segments with one space between neighbours, built from the right.
RECURSIVE SpaceJoined(_)
SpaceJoined(segs) ==
  IF Len(segs) = 1 THEN segs[1]
  ELSE SpaceJoined(SubSeq(segs, 1, Len(segs) - 1)) \o <<" ">> \o Last(segs)

FieldValue(lines, field, sentinel) ==
  IF Segments(lines, "none", field) = <<>> THEN sentinel
  ELSE SpaceJoined(Segments(lines, "none", field))

\* C12: parse_medline is a state machine over the lines with an open field that
\* is none, title or abstract: a "TI  - " line opens title and gives it the
\* rest of the line, an "AB  - " line does so for abstract, a line of six
\* spaces gives its trimmed content to the open field (to none when no field is
\* open), any other line closes the open field; each field is its segments
\* joined by one space in input order, or its sentinel when it has no segment.
C12_ParserStateMachine ==
  pc = "returned" =>
    /\ ret[1].title = FieldValue(resp, "title", NO_TITLE)
    /\ ret[1].abstract = FieldValue(resp, "abstract", NO_ABSTRACT)

\* C13: nothing is fatal to a run of main(): whatever the extractors, the two
\* sources and the summary engine fail with or send back, the run goes on step
\* by step to the end of display_results and ends with a summary, with the
\* fixed string "Unable to generate summary." or with "No data available.",
\* and never with an error that nothing handles.
C13_NoFatalCondition ==
  /\ pc # "crashed"
  /\ pc # "done" => ENABLED Next
  /\ pc = "done" =>
       \/ outcome = "No data available." /\ engine_log = <<>>
       \/ /\ outcome = "summary"
          /\ Len(engine_log) = 1
          /\ combined_abstract \in {engine_log[1].answer, UNABLE_SUMMARY}

\* The calls of `who` among `calls`.
CallsBy(calls, who) == { k \in 1..Len(calls) : calls[k].who = who }

\* C14: for every record an adapter builds from an abstract its source
\* supplied, extraction has two stages with spaCy first: spaCy is called once
\* on the abstract, the LLM extractor is called on it only if spaCy returned no
\* entity and then once, and the record's entities are the output of one of the
\* two calls: spaCy's when it is not empty, the LLM extractor's otherwise.
C14_TwoStageExtraction ==
  /\ Len(rec_log) = Len(papers)
  /\ \A i \in 1..Len(papers) :
       rec_log[i].has_abstract =>
         LET calls == rec_log[i].calls
         IN /\ calls # <<>>
            /\ calls[1].who = "spacy"
            /\ Cardinality(CallsBy(calls, "spacy")) = 1
            /\ Cardinality(CallsBy(calls, "openai")) <= 1
            /\ CallsBy(calls, "openai") # {} <=> calls[1].out = <<>>
            /\ Len(calls) = 2 => calls[2].who = "openai"
            /\ papers[i].entities =
                 IF calls[1].out # <<>> THEN calls[1].out ELSE calls[Len(calls)].out

\* C14's case: an adapter returned two records with abstracts; for the first
\* spaCy found an entity and the LLM extractor was not called, for the second
\* spaCy found none and the LLM extractor's entity was kept.
C14_Witness ==
  /\ pc = "returned"
  /\ Len(ret) = 2
  /\ rec_log[1].has_abstract /\ rec_log[2].has_abstract
  /\ Len(rec_log[1].calls) = 1
  /\ ret[1].entities = <<E_AB>>
  /\ Len(rec_log[2].calls) = 2
  /\ ret[2].entities = <<E_CAS>>

\* The requests of kind `req` in the running adapter's log.
RequestsOf(req) == { k \in 1..Len(req_log) : req_log[k].req = req }

\* a is the first Len(a) elements of b.
IsPrefix(a, b) == Len(a) <= Len(b) /\ a = SubSeq(b, 1, Len(a))

\* C15: one search of the PubMed adapter issues exactly one ESearch request;
\* it issues no detail request when ESearch raised, had a status other than
\* 200 or returned no id; otherwise it issues at most one detail request per
\* returned id, in the order of the id list; no request of either phase that
\* failed is issued again.
C15_PubmedTwoPhase ==
  /\ pc = "pub_req" => req_log = <<>>
  /\ pc \in {"pub_loop", "pub_ret"} \/ (pc = "returned" /\ RequestsOf("esearch") # {}) =>
       /\ RequestsOf("esearch") = {1}
       /\ RequestsOf("fetch") = 2..Len(req_log)
       /\ (req_log[1].result # "ok" \/ IdList = <<>>) => Len(req_log) = 1
       /\ IsPrefix([i \in 1..Len(Fetches) |-> Fetches[i].id], IdList)
       /\ \A i, j \in 1..Len(Fetches) : Fetches[i].id = Fetches[j].id => i = j
       /\ \A i \in 1..Len(Fetches) :
            Fetches[i].result = "transport_error" => i = Len(Fetches)

\* C15's case: ESearch returned the ids 2 and 1; the detail request for 2 had a
\* status other than 200, the one for 1 succeeded, and the adapter returned.
C15_Witness ==
  /\ pc = "returned"
  /\ Len(req_log) = 3
  /\ IdList = <<2, 1>>
  /\ Fetches[1].id = 2 /\ Fetches[1].result = "status_error"
  /\ Fetches[2].id = 1 /\ Fetches[2].result = "ok"
  /\ Len(ret) = 1

\* get_query_entities has returned, with no entity.
NoQueryEntity ==
  /\ pc \notin {"q_primary", "q_check", "q_fallback"}
  /\ query_entities = <<>>

\* C16: when neither the LLM extractor nor spaCy finds an entity in the query,
\* required_terms is empty, the first filter result is empty whatever the
\* adapters returned, the second attempt is made and searches the same string as
\* the first (the refined query is the original query), and the run ends with
\* "No data available.".
C16_NoEntityNoData ==
  NoQueryEntity =>
    /\ Len(ext_log) = 2 /\ ext_log[1].out = <<>> /\ ext_log[2].out = <<>>
    /\ pc \notin {"crashed", "summarize"}
    /\ pc # "done" => ENABLED Next
    /\ required_terms = <<>>
    /\ pc # "build" => refined_query = QUERY
    /\ \A k \in 1..Len(searched) : searched[k].query = QUERY
    /\ \A k \in 1..Len(filter_log) :
         filter_log[k].terms = <<>> /\ filter_log[k].output = <<>>
    /\ Len(filter_log) >= 1 => (attempt = 2 /\ Len(searched) >= 2)
    /\ pc \in {"display", "done"} =>
         /\ Len(filter_log) = 2
         /\ Len(searched) = 4
         /\ searched[3].query = searched[1].query
         /\ searched[4].query = searched[2].query
         /\ filtered_papers = <<>>
    /\ pc = "done" => (outcome = "No data available." /\ engine_log = <<>>)

\* C16's case: no entity was found, both attempts found records, and the run
\* ended with "No data available.".
C16_Witness ==
  /\ pc = "done"
  /\ query_entities = <<>>
  /\ Len(filter_log) = 2
  /\ filter_log[1].input # <<>>
  /\ filter_log[2].input # <<>>
  /\ outcome = "No data available."

\* The filter result that display_results is handed has been computed.
FinalFilterDone ==
  /\ filter_log # <<>>
  /\ (Len(filter_log) = 2 \/ filter_log[1].output # <<>>)

\* C17: in a run of main() the summary engine is called at most once and only
\* after the final filter result is there; in a run that has ended it was
\* called exactly once if that final result is not empty and not at all if it
\* is empty, in which case the run reported "No data available.".
C17_SummaryIffResults ==
  /\ Len(engine_log) <= 1
  /\ engine_log # <<>> =>
       (FinalFilterDone /\ filtered_papers = Last(filter_log).output)
  /\ (pc \in {"done", "crashed"} /\ FinalFilterDone) =>
       /\ Len(engine_log) = 1 <=> filtered_papers # <<>>
       /\ filtered_papers = <<>> => outcome = "No data available."

====
